---- MODULE Spec2Model ----
(***************************************************************************)
(* Model of the package-upgrade scripts:                                   *)
(*   patch_groups.py  - get_hosts, create_patch_groups, the emitted files  *)
(*   begin_patch.py   - ConfigManager.append_skip_file and the driver run  *)
(*   package_list.py  - generate_package_yaml                              *)
(*                                                                         *)
(* Python dicts keep insertion order, and the code iterates them, so a     *)
(* dict is modelled as a sequence of <<key, value>> pairs with distinct    *)
(* keys.  A str that the code inspects character by character (strip,      *)
(* startswith) is modelled as a sequence of one-character strings.         *)
(***************************************************************************)
EXTENDS Integers, Sequences, FiniteSets, TLC

VARIABLES
    pc,               \* position of the run under the current specification
    hosts_by_role,    \* create_patch_groups: the argument (role -> host list)
    patch_groups,     \* create_patch_groups: the returned dict (group -> host list)
    instances,        \* get_hosts: the provider's JSON listing
    hosts_by_role_and_region,  \* get_hosts: the returned roster, or an exception
    skip_host_file,   \* content of vars/skiphost (Missing, or its lines)
    skip_role_file,   \* content of vars/skiprole (Missing, or its lines)
    last_call,        \* arguments of the latest append_skip_file call
    packages,         \* generate_package_yaml: the comma-separated argument
    packages_yaml,    \* content of packages.yaml (Missing, or its 'packages' list)
    args,             \* the driver's parsed command line
    env,              \* what the driver finds: the -i file, gcloud's answer
    exit_status,      \* status the driver process exits with (pc = "exited")
    uncaught,         \* the exception that ended the driver with a traceback
    printed,          \* the kinds of message the driver has printed
    dirs_created,     \* whether ~/patch-<time>/{vars,logs} exist
    cwd_files,        \* patch-groups-<region>.yaml files in the working directory
    patch_group_file, \* the inventory file the runner is given
    todo,             \* groups the driver's loop has still to run
    invocations,      \* groups the runner was started for, in order
    runner_active,    \* whether an ansible-playbook process is running
    failed_groups,    \* groups whose ansible-playbook exited non-zero
    retry_file,       \* content of <playbook_dir>/main.retry
    retry_processed,  \* number of process_retry_file calls so far
    externals,        \* external commands the driver has executed
    command           \* the command line run_patch_playbook built last

driver_vars == <<args, env, exit_status, uncaught, printed, dirs_created, cwd_files,
                 patch_group_file, todo, invocations, runner_active, failed_groups,
                 retry_file, retry_processed, externals, command>>

vars == <<pc, hosts_by_role, patch_groups, instances, hosts_by_role_and_region,
          skip_host_file, skip_role_file, last_call, packages, packages_yaml,
          driver_vars>>

\* ------------------------------------------------------------------ bounds

\* longest package string (in characters) handed to generate_package_yaml
MaxPkgLen == 4
\* longest host list of one role handed to create_patch_groups
MaxLen == 3
\* number of instances in the provider's listing
MaxInstances == 3
\* number of labels on one instance
MaxLabels == 2
\* number of names in one append_skip_file call
MaxCallLen == 2
\* number of instances in the listing a driver run fetches
MaxDriverInstances == 2
\* largest group number a rendered group key may carry
MaxGroupNo == 12

\* ------------------------------------------------------- generic helpers

\* Python's None where the other values are strings
None == "None"

\* a file that does not exist, and a file holding the given lines
Missing == [exists |-> FALSE, lines |-> <<>>]

File(lines) == [exists |-> TRUE, lines |-> lines]

\* what a call gave: a returned value, or the exception that left it
Returned(v) == [raised |-> None, value |-> v]

Raised(e) == [raised |-> e, value |-> <<>>]

NoCall == [hostnames |-> <<>>, skiptype |-> None, before |-> Missing]

\* the driver's command line when no driver runs
NoArgs == [region |-> <<>>, inventory |-> None, grouplist |-> <<>>, debug |-> FALSE,
           skiphost |-> <<>>, skiprole |-> <<>>, packages |-> <<>>,
           pkgcheck |-> FALSE, upgrade |-> FALSE, upgradepkgsonly |-> FALSE,
           nocreds |-> FALSE, askpass |-> FALSE, askpassbecome |-> FALSE]

\* the list cmd of run_patch_playbook before any was built: the words get_creds
\* gave, the group in host_list, and the settings of the extra variables
NoCommand == [creds |-> <<>>, host_list |-> None, exvars |-> <<>>]

\* a file of characters: whether it exists, whether it may be read, its content
NoFile == [exists |-> FALSE, readable |-> FALSE, content |-> <<>>]

TextFile(content) == [exists |-> TRUE, readable |-> TRUE, content |-> content]

NoEnv == [inventory_file |-> NoFile, gcloud_fails |-> FALSE]

SeqsUpTo(S, n) == UNION {[1..k -> S] : k \in 0..n}

IsInjective(s) == \A i, j \in DOMAIN s : s[i] = s[j] => i = j

Range(s) == {s[i] : i \in DOMAIN s}

\* list[::-1] / list.reverse()
Reverse(s) == [i \in 1..Len(s) |-> s[Len(s) + 1 - i]]

\* number of positions of s holding x
Count(s, x) == Cardinality({i \in DOMAIN s : s[i] = x})

IsPrefix(s, t) == Len(s) <= Len(t) /\ SubSeq(t, 1, Len(s)) = s

\* dict helpers: a dict is a sequence of <<key, value>> pairs
DictKeys(d) == {d[i][1] : i \in DOMAIN d}

DictHas(d, k) == k \in DictKeys(d)

DictGet(d, k) == d[CHOOSE i \in DOMAIN d : d[i][1] = k][2]

\* defaultdict(list): d[k].extend(xs), creating the key with [] when absent
DictExtend(d, k, xs) ==
    IF DictHas(d, k)
    THEN [i \in DOMAIN d |-> IF d[i][1] = k THEN <<k, d[i][2] \o xs>> ELSE d[i]]
    ELSE Append(d, <<k, xs>>)

\* ------------------------------------------- patch_groups.py: partitioner

ReservedRole == "be-sharddb"

Roles == {"web", "db", ReservedRole}

Hosts == {"a", "b", "c", "x", "y"}

\* f"pg{i+1}" for the 0-based loop index i, given here as n = i+1
PgName(n) == "pg" \o ToString(n)

\* max(len(hosts) for hosts in d.values()) if d else 0
MaxHostsOf(d) ==
    IF d = <<>> THEN 0
    ELSE CHOOSE m \in {Len(d[i][2]) : i \in DOMAIN d} :
             \A i \in DOMAIN d : Len(d[i][2]) <= m

\* the nested loops of lines 120-123, (i, j) = (0-based host index, role position)
RECURSIVE RoundRobin(_, _, _, _, _)
RoundRobin(pg, nsr, max_hosts, i, j) ==
    IF i >= max_hosts THEN pg
    ELSE IF j > Len(nsr) THEN RoundRobin(pg, nsr, max_hosts, i + 1, 1)
    ELSE IF i < Len(nsr[j][2])
         THEN RoundRobin(DictExtend(pg, PgName(i + 1), <<nsr[j][2][i + 1]>>),
                         nsr, max_hosts, i, j + 1)
         ELSE RoundRobin(pg, nsr, max_hosts, i, j + 1)

\* PlaceSharddb with the second half starting one host early (hosts[mid-1:])
PlaceSharddb_overlap(pg, hbr) ==
    IF DictHas(hbr, ReservedRole)
    THEN LET sharddb_hosts == DictGet(hbr, ReservedRole)
         IN  IF Len(sharddb_hosts) = 1
             THEN DictExtend(pg, PgName(1), sharddb_hosts)
             ELSE LET mid == Len(sharddb_hosts) \div 2
                  IN  DictExtend(
                          DictExtend(pg, PgName(2), SubSeq(sharddb_hosts, 1, mid)),
                          PgName(1),
                          SubSeq(sharddb_hosts, IF mid > 0 THEN mid ELSE 1,
                                 Len(sharddb_hosts)))
    ELSE pg

\* PlaceSharddb with the halves exchanged (hosts[:mid] to pg1, hosts[mid:] to pg2)
PlaceSharddb_swapped(pg, hbr) ==
    IF DictHas(hbr, ReservedRole)
    THEN LET sharddb_hosts == DictGet(hbr, ReservedRole)
         IN  IF Len(sharddb_hosts) = 1
             THEN DictExtend(pg, PgName(1), sharddb_hosts)
             ELSE LET mid == Len(sharddb_hosts) \div 2
                  IN  DictExtend(
                          DictExtend(pg, PgName(1), SubSeq(sharddb_hosts, 1, mid)),
                          PgName(2),
                          SubSeq(sharddb_hosts, mid + 1, Len(sharddb_hosts)))
    ELSE pg

\* PlaceSharddb without the one-host branch (always the midpoint split)
PlaceSharddb_nosingle(pg, hbr) ==
    IF DictHas(hbr, ReservedRole)
    THEN LET sharddb_hosts == DictGet(hbr, ReservedRole)
             mid == Len(sharddb_hosts) \div 2
         IN  DictExtend(
                 DictExtend(pg, PgName(2), SubSeq(sharddb_hosts, 1, mid)),
                 PgName(1),
                 SubSeq(sharddb_hosts, mid + 1, Len(sharddb_hosts)))
    ELSE pg

\* PlaceSharddb dealing the reserved hosts one per group like any other role
PlaceSharddb_spread(pg, hbr) ==
    IF DictHas(hbr, ReservedRole)
    THEN LET sharddb_hosts == DictGet(hbr, ReservedRole)
             RECURSIVE Deal(_, _)
             Deal(g, i) == IF i > Len(sharddb_hosts) THEN g
                           ELSE Deal(DictExtend(g, PgName(i), <<sharddb_hosts[i]>>), i + 1)
         IN  Deal(pg, 1)
    ELSE pg

\* PlaceSharddb with the first half sent to pg3 instead of pg2
PlaceSharddb_pg3(pg, hbr) ==
    IF DictHas(hbr, ReservedRole)
    THEN LET sharddb_hosts == DictGet(hbr, ReservedRole)
         IN  IF Len(sharddb_hosts) = 1
             THEN DictExtend(pg, PgName(1), sharddb_hosts)
             ELSE LET mid == Len(sharddb_hosts) \div 2
                  IN  DictExtend(
                          DictExtend(pg, PgName(3), SubSeq(sharddb_hosts, 1, mid)),
                          PgName(1),
                          SubSeq(sharddb_hosts, mid + 1, Len(sharddb_hosts)))
    ELSE pg

\* lines 125-132: the reserved role's hosts
PlaceSharddb(pg, hbr) ==
    IF DictHas(hbr, ReservedRole)
    THEN LET sharddb_hosts == DictGet(hbr, ReservedRole)
         IN  IF Len(sharddb_hosts) = 1
             THEN DictExtend(pg, PgName(1), sharddb_hosts)
             ELSE LET mid == Len(sharddb_hosts) \div 2
                  IN  DictExtend(
                          DictExtend(pg, PgName(2), SubSeq(sharddb_hosts, 1, mid)),
                          PgName(1),
                          SubSeq(sharddb_hosts, mid + 1, Len(sharddb_hosts)))
    ELSE pg

\* create_patch_groups with max_hosts taken from the first role only
create_patch_groups_firstrole(hbr) ==
    LET non_sharddb_roles == SelectSeq(hbr, LAMBDA p : p[1] # ReservedRole)
        max_hosts == IF non_sharddb_roles = <<>> THEN 0
                     ELSE Len(non_sharddb_roles[1][2])
    IN  PlaceSharddb(RoundRobin(<<>>, non_sharddb_roles, max_hosts, 0, 1), hbr)

create_patch_groups(hbr) ==
    LET non_sharddb_roles == SelectSeq(hbr, LAMBDA p : p[1] # ReservedRole)
        max_hosts == MaxHostsOf(non_sharddb_roles)
    IN  PlaceSharddb(RoundRobin(<<>>, non_sharddb_roles, max_hosts, 0, 1), hbr)

\* the role -> host-list mappings the partitioner is applied to: any order of
\* any roles, every host name distinct (an instance is identified by its name)
HostPerms == {s \in SeqsUpTo(Hosts, Cardinality(Hosts)) : IsInjective(s)}

RoleOrders == {s \in SeqsUpTo(Roles, Cardinality(Roles)) : IsInjective(s)}

RECURSIVE SumTo(_, _)
SumTo(f, n) == IF n = 0 THEN 0 ELSE f[n] + SumTo(f, n - 1)

Slices(ro, all, lens) ==
    [i \in 1..Len(ro) |->
        <<ro[i], SubSeq(all, SumTo(lens, i - 1) + 1, SumTo(lens, i))>>]

PgIdle ==
    /\ hosts_by_role = <<>>
    /\ patch_groups = <<>>

HostsIdle ==
    /\ instances = <<>>
    /\ hosts_by_role_and_region = Returned(<<>>)

SkipIdle ==
    /\ skip_host_file = Missing
    /\ skip_role_file = Missing
    /\ last_call = NoCall

PkgIdle ==
    /\ packages = <<>>
    /\ packages_yaml = Missing

DriverIdle ==
    /\ args = NoArgs
    /\ env = NoEnv
    /\ exit_status = 0
    /\ uncaught = None
    /\ printed = {}
    /\ dirs_created = FALSE
    /\ cwd_files = <<>>
    /\ patch_group_file = NoFile
    /\ todo = <<>>
    /\ invocations = <<>>
    /\ runner_active = FALSE
    /\ failed_groups = {}
    /\ retry_file = Missing
    /\ retry_processed = 0
    /\ externals = {}
    /\ command = NoCommand

InitPG ==
    /\ pc = "input"
    /\ \E ro \in RoleOrders, all \in HostPerms :
         \E lens \in [1..Len(ro) -> 0..MaxLen] :
            /\ SumTo(lens, Len(ro)) = Len(all)
            /\ hosts_by_role = Slices(ro, all, lens)
    /\ patch_groups = <<>>
    /\ HostsIdle
    /\ SkipIdle
    /\ PkgIdle
    /\ DriverIdle

CallCreatePatchGroups ==
    /\ pc = "input"
    /\ patch_groups' = create_patch_groups(hosts_by_role)
    /\ pc' = "done"
    /\ UNCHANGED <<hosts_by_role, instances, hosts_by_role_and_region,
                   skip_host_file, skip_role_file, last_call,
                   packages, packages_yaml, driver_vars>>

NextPG == CallCreatePatchGroups

SpecPG == InitPG /\ [][NextPG]_vars

\* ------------------------------------------- patch_groups.py: get_hosts

\* label keys, character by character
KeyRole == <<"r", "o", "l", "e">>
KeyRole2 == <<"r", "o", "l", "e", "2">>
KeyRegion == <<"r", "e", "g", "i", "o", "n">>

\* str.startswith
StartsWith(s, prefix) ==
    Len(s) >= Len(prefix) /\ SubSeq(s, 1, Len(prefix)) = prefix

\* the <<key, value>> labels an instance of the listing may carry
LabelItems ==
    { <<KeyRole, "web">>, <<KeyRole, ReservedRole>>, <<KeyRole2, "">>,
      <<KeyRegion, "us">> }

\* the JSON objects an instance's 'labels' may be
LabelDicts ==
    {d \in SeqsUpTo(LabelItems, MaxLabels) : IsInjective([i \in DOMAIN d |-> d[i][1]])}

\* an instance record: its name and, unless the record has no 'labels', its labels
Instance(name, has_labels, labels) ==
    [name |-> name, has_labels |-> has_labels, labels |-> labels]

InstanceLabels == {<<FALSE, <<>> >>} \cup {<<TRUE, d>> : d \in LabelDicts}

\* instance names in the provider's --sort-by=name order
InstanceNames == <<"a", "b", "c", "x", "y", "z">>

\* next((v for k, v in labels.items() if k.startswith('role')), None)
FirstRoleValue(labels) ==
    LET hits == SelectSeq(labels, LAMBDA kv : StartsWith(kv[1], KeyRole))
    IN  IF hits = <<>> THEN None ELSE hits[1][2]

\* labels.get('region', 'unknown')
RegionOf(labels) ==
    IF DictHas(labels, KeyRegion) THEN DictGet(labels, KeyRegion) ELSE "unknown"

\* hosts_by_role_and_region[region][role].append(name) on nested defaultdicts
NestedAppend(roster, region, role, name) ==
    IF DictHas(roster, region)
    THEN [i \in DOMAIN roster |->
            IF roster[i][1] = region
            THEN <<region, DictExtend(roster[i][2], role, <<name>>)>>
            ELSE roster[i]]
    ELSE Append(roster, <<region, << <<role, <<name>> >> >> >>)

\* the loop of lines 84-88 from instance k on; a record without 'labels' raises
RECURSIVE Bucket(_, _, _)
Bucket(roster, insts, k) ==
    IF k > Len(insts) THEN Returned(roster)
    ELSE IF ~insts[k].has_labels THEN Raised("KeyError")
    ELSE LET role == FirstRoleValue(insts[k].labels)
             region == RegionOf(insts[k].labels)
         IN  IF role # None /\ role # ""
             THEN Bucket(NestedAppend(roster, region, role, insts[k].name), insts, k + 1)
             ELSE Bucket(roster, insts, k + 1)

\* lines 91-93 left out: the lists stay in listing order
ReverseAll_none(roster) == roster

\* lines 91-93: every list reversed in place
ReverseAll(roster) ==
    [i \in DOMAIN roster |->
        <<roster[i][1],
          [j \in DOMAIN roster[i][2] |->
              <<roster[i][2][j][1], Reverse(roster[i][2][j][2])>>]>>]

get_hosts(insts) ==
    LET bucketed == Bucket(<<>>, insts, 1)
    IN  IF bucketed.raised # None THEN bucketed
        ELSE Returned(ReverseAll(bucketed.value))

InitHosts ==
    /\ pc = "listed"
    /\ \E n \in 0..MaxInstances :
         \E ls \in [1..n -> InstanceLabels] :
            instances = [i \in 1..n |-> Instance(InstanceNames[i], ls[i][1], ls[i][2])]
    /\ hosts_by_role_and_region = Returned(<<>>)
    /\ PgIdle
    /\ SkipIdle
    /\ PkgIdle
    /\ DriverIdle

CallGetHosts ==
    /\ pc = "listed"
    /\ hosts_by_role_and_region' = get_hosts(instances)
    /\ pc' = "fetched"
    /\ UNCHANGED <<hosts_by_role, patch_groups, instances,
                   skip_host_file, skip_role_file, last_call,
                   packages, packages_yaml, driver_vars>>

NextHosts == CallGetHosts

SpecHosts == InitHosts /\ [][NextHosts]_vars

\* ------------------------------- begin_patch.py: ConfigManager.append_skip_file

\* raw names handed to append_skip_file, character by character
RawNames == { <<"a">>, <<" ", "a", " ">>, <<"a", " ">>, <<"b">>, <<" ", "b">> }

\* str.strip() for the blank
RECURSIVE LStrip(_)
LStrip(s) == IF s # <<>> /\ Head(s) = " " THEN LStrip(Tail(s)) ELSE s

Strip(s) == Reverse(LStrip(Reverse(LStrip(s))))

\* names as the code writes them: one stripped name per line
StrippedNames == {Strip(n) : n \in RawNames}

SkipTypes == {"host", "role"}

\* the lines of a skip file (each without its "\n"), none when it is missing
Content(file) == file.lines

\* line 118: set(line.strip() for line in f), {} when the file does not exist
ExistingHosts(file) == {Strip(Content(file)[i]) : i \in DOMAIN Content(file)}

\* the loop of lines 121-125 without line 125 (existing_hosts.add)
RECURSIVE WriteUnique_noadd(_, _, _, _)
WriteUnique_noadd(lines, existing_hosts, hostnames, k) ==
    IF k > Len(hostnames) THEN lines
    ELSE LET hostname == Strip(hostnames[k])
         IN  IF hostname \notin existing_hosts
             THEN WriteUnique_noadd(Append(lines, hostname), existing_hosts,
                                    hostnames, k + 1)
             ELSE WriteUnique_noadd(lines, existing_hosts, hostnames, k + 1)

\* the loop of lines 121-125 from hostnames[k] on
RECURSIVE WriteUnique(_, _, _, _)
WriteUnique(lines, existing_hosts, hostnames, k) ==
    IF k > Len(hostnames) THEN lines
    ELSE LET hostname == Strip(hostnames[k])
         IN  IF hostname \notin existing_hosts
             THEN WriteUnique(Append(lines, hostname),
                              existing_hosts \cup {hostname}, hostnames, k + 1)
             ELSE WriteUnique(lines, existing_hosts, hostnames, k + 1)

\* lines 115-125 with the loop forgetting what it wrote
AppendTo_noadd(file, hostnames) ==
    File(WriteUnique_noadd(Content(file), ExistingHosts(file), hostnames, 1))

\* lines 115-125 with the file opened 'w' instead of 'a'
AppendTo_truncate(file, hostnames) ==
    File(WriteUnique(<<>>, ExistingHosts(file), hostnames, 1))

\* lines 115-125 writing every name, whether the file holds it or not
AppendTo_nocheck(file, hostnames) ==
    File(Content(file) \o [k \in DOMAIN hostnames |-> Strip(hostnames[k])])

\* lines 115-125 on the chosen file; open(skip_file, 'a') creates a missing file
AppendTo(file, hostnames) ==
    File(WriteUnique(Content(file), ExistingHosts(file), hostnames, 1))

\* files the code itself can have left behind: duplicate-free, stripped lines
SkipFiles ==
    {Missing} \cup {File(f) : f \in {g \in SeqsUpTo(StrippedNames, Cardinality(StrippedNames)) :
                                       IsInjective(g)}}

InitSkip ==
    /\ pc = "skip"
    /\ skip_host_file \in SkipFiles
    /\ skip_role_file \in SkipFiles
    /\ last_call = NoCall
    /\ PgIdle
    /\ HostsIdle
    /\ PkgIdle
    /\ DriverIdle

\* ConfigManager.append_skip_file(hostnames, skiptype)
append_skip_file(hostnames, skiptype) ==
    /\ pc = "skip"
    /\ IF skiptype = "host"
       THEN /\ skip_host_file' = AppendTo(skip_host_file, hostnames)
            /\ UNCHANGED skip_role_file
       ELSE /\ skip_role_file' = AppendTo(skip_role_file, hostnames)
            /\ UNCHANGED skip_host_file
    /\ last_call' = [hostnames |-> hostnames, skiptype |-> skiptype,
                     before |-> IF skiptype = "host" THEN skip_host_file
                                ELSE skip_role_file]
    /\ UNCHANGED <<pc, hosts_by_role, patch_groups, instances, hosts_by_role_and_region,
                   packages, packages_yaml, driver_vars>>

CallAppendSkipFile ==
    \E hostnames \in SeqsUpTo(RawNames, MaxCallLen), skiptype \in SkipTypes :
        append_skip_file(hostnames, skiptype)

NextSkip == CallAppendSkipFile

SpecSkip == InitSkip /\ [][NextSkip]_vars

\* --------------------------------- package_list.py: generate_package_yaml

\* str.split(sep) for a one-character separator, from position k on, the
\* current piece being cur
RECURSIVE SplitFrom(_, _, _, _)
SplitFrom(s, sep, k, cur) ==
    IF k > Len(s) THEN <<cur>>
    ELSE IF s[k] = sep THEN <<cur>> \o SplitFrom(s, sep, k + 1, <<>>)
    ELSE SplitFrom(s, sep, k + 1, Append(cur, s[k]))

Split(s, sep) == SplitFrom(s, sep, 1, <<>>)

\* the orders in which iterating a set may give its elements
Orders(S) == {o \in [1..Cardinality(S) -> S] : IsInjective(o)}

\* line 87: [pkg.strip() for pkg in set(packages.split(','))], in any set order
PackageLists(pkgs) ==
    {[i \in DOMAIN o |-> Strip(o[i])] : o \in Orders(Range(Split(pkgs, ",")))}

PackageChars == {"a", "b", ",", " "}

InitPkg ==
    /\ pc = "packages"
    /\ packages \in SeqsUpTo(PackageChars, MaxPkgLen)
    /\ packages_yaml = Missing
    /\ PgIdle
    /\ HostsIdle
    /\ SkipIdle
    /\ DriverIdle

\* generate_package_yaml(packages, folder): packages.yaml holds {"packages": list}
generate_package_yaml ==
    /\ pc = "packages"
    /\ \E list \in PackageLists(packages) : packages_yaml' = File(list)
    /\ pc' = "written"
    /\ UNCHANGED <<hosts_by_role, patch_groups, instances, hosts_by_role_and_region,
                   skip_host_file, skip_role_file, last_call, packages, driver_vars>>

NextPkg == generate_package_yaml

SpecPkg == InitPkg /\ [][NextPkg]_vars

\* ------------------------------------ begin_patch.py: the driver's helpers

Lower == {"a", "b", "c", "d", "e", "f", "g", "h", "i", "j", "k", "l", "m",
          "n", "o", "p", "q", "r", "s", "t", "u", "v", "w", "x", "y", "z"}

Digit == {"0", "1", "2", "3", "4", "5", "6", "7", "8", "9"}

\* the str made of the given characters
RECURSIVE Join(_)
Join(s) == IF s = <<>> THEN "" ELSE Head(s) \o Join(Tail(s))

\* the decimal digits of n >= 0
RECURSIVE Digits(_)
Digits(n) ==
    LET d == <<"0", "1", "2", "3", "4", "5", "6", "7", "8", "9">>[(n % 10) + 1]
    IN  IF n < 10 THEN <<d>> ELSE Append(Digits(n \div 10), d)

\* the characters of a group key "pg<n>"
KeyChars(key) ==
    CHOOSE c \in {<<"p", "g">> \o Digits(n) : n \in 1..MaxGroupNo} : Join(c) = key

AllIn(s, from, to, S) == \A k \in from..to : s[k] \in S

\* str.strip("'\"")
RECURSIVE LStripQuotes(_)
LStripQuotes(s) ==
    IF s # <<>> /\ Head(s) \in {"'", "\""} THEN LStripQuotes(Tail(s)) ELSE s

StripQuotes(s) == Reverse(LStripQuotes(Reverse(LStripQuotes(s))))

\* the pattern of line 474 with an end anchor
MatchesRegionPattern_anchored(s) ==
    \E i \in 1..Len(s), j \in 1..Len(s) :
        /\ AllIn(s, 1, i, Lower)
        /\ i + 1 <= Len(s) /\ s[i + 1] = "-"
        /\ i + 2 <= j /\ AllIn(s, i + 2, j, Lower)
        /\ j + 1 <= Len(s) /\ AllIn(s, j + 1, Len(s), Digit)

\* line 474-475: re.match(r'^[a-z]+-[a-z]+\d+', region), a match of a prefix
MatchesRegionPattern(s) ==
    \E i \in 1..Len(s), j \in 1..Len(s), k \in 1..Len(s) :
        /\ AllIn(s, 1, i, Lower)
        /\ i + 1 <= Len(s) /\ s[i + 1] = "-"
        /\ i + 2 <= j /\ AllIn(s, i + 2, j, Lower)
        /\ j + 1 <= k /\ AllIn(s, j + 1, k, Digit)

\* InventoryManager.validate_file: the first failed check's message, or ok
validate_file(exists, size, readable) ==
    IF ~exists THEN [ok |-> FALSE, message |-> "File does not exist"]
    ELSE IF size = 0 THEN [ok |-> FALSE, message |-> "File is empty"]
    ELSE IF ~readable THEN [ok |-> FALSE, message |-> "File is not readable"]
    ELSE [ok |-> TRUE, message |-> None]

validate_text_file(f) == validate_file(f.exists, Len(f.content), f.readable)

\* patch_groups.py 153-157: the text of patch-groups-<region>.yaml
RECURSIVE HostLines(_)
HostLines(hosts) ==
    IF hosts = <<>> THEN <<>>
    ELSE <<" ", " ", " ", " ">> \o Head(hosts) \o <<":", "\n">> \o HostLines(Tail(hosts))

RECURSIVE GroupLines(_)
GroupLines(pg) ==
    IF pg = <<>> THEN <<>>
    ELSE KeyChars(Head(pg)[1]) \o <<":", "\n">>
         \o <<" ", " ", "h", "o", "s", "t", "s", ":", "\n">>
         \o HostLines(Head(pg)[2])
         \o GroupLines(Tail(pg))

\* patch_groups.py 137-157: create_patch_group_files, as the file it leaves
create_patch_group_files(pg) == TextFile(GroupLines(pg))

\* patch_groups.py 177-183: one file per region of the roster
WriteRegionFiles(roster) ==
    [i \in DOMAIN roster |->
        <<roster[i][1], create_patch_group_files(create_patch_groups(roster[i][2]))>>]

\* generate_patch_groups with a failed fetch swallowed (no file, no exception)
generate_patch_groups_swallow(gcloud_fails, listing) ==
    IF gcloud_fails THEN Returned(<<>>)
    ELSE LET fetched == get_hosts(listing)
         IN  IF fetched.raised # None THEN Returned(<<>>)
             ELSE Returned(WriteRegionFiles(fetched.value))

\* patch_groups.py 160-183: generate_patch_groups, as the files it leaves in the
\* working directory, or the exception get_hosts raised before any was written
generate_patch_groups(gcloud_fails, listing) ==
    IF gcloud_fails THEN Raised("CalledProcessError")
    ELSE LET fetched == get_hosts(listing)
         IN  IF fetched.raised # None THEN fetched
             ELSE Returned(WriteRegionFiles(fetched.value))

\* where a match of pg\d+: starting at p ends, 0 when there is none
RECURSIVE DigitRunEnd(_, _)
DigitRunEnd(s, p) ==
    IF p <= Len(s) /\ s[p] \in Digit THEN DigitRunEnd(s, p + 1) ELSE p - 1

PgMatchEnd(s, p) ==
    IF p + 1 <= Len(s) /\ s[p] = "p" /\ s[p + 1] = "g"
    THEN LET q == DigitRunEnd(s, p + 2)
         IN  IF q >= p + 2 /\ q + 1 <= Len(s) /\ s[q + 1] = ":" THEN q + 1 ELSE 0
    ELSE 0

\* len(re.findall(r'pg\d+:', content)) from position p on
RECURSIVE FindAllPg(_, _)
FindAllPg(s, p) ==
    IF p > Len(s) THEN 0
    ELSE IF PgMatchEnd(s, p) > 0 THEN 1 + FindAllPg(s, PgMatchEnd(s, p) + 1)
    ELSE FindAllPg(s, p + 1)

\* InventoryManager.count_patch_groups: open() raises on a missing or unreadable file
count_patch_groups(f) ==
    IF ~f.exists THEN Raised("FileNotFoundError")
    ELSE IF ~f.readable THEN Raised("PermissionError")
    ELSE Returned(FindAllPg(f.content, 1))

\* the group names from the last to the first
PgRange_reversed(n) == [i \in 1..n |-> PgName(n + 1 - i)]

\* range(1, n + 1) as group names
PgRange(n) == [i \in 1..n |-> PgName(i)]

\* ------------------------------- begin_patch.py: the runner's command line

\* get_exvars testing --upgrade before --pkgcheck and --upgradepkgsonly
get_exvars_upgradefirst(a) ==
    IF a.upgrade
    THEN [value |-> << <<"run_precheck", "true">>, <<"run_upgrade", "true">> >>,
          notes |-> {"Info: Upgrade packages and rebooting hosts if required."}]
    ELSE IF a.pkgcheck
    THEN [value |-> << <<"run_pkgcheck", "true">> >>, notes |-> {}]
    ELSE IF a.upgradepkgsonly
    THEN [value |-> << <<"run_precheck", "true">>, <<"run_upgrade", "true">>,
                       <<"reboot_if_required", "false">> >>,
          notes |-> {"Info: Upgrade packages only. Skipping reboots even if required."}]
    ELSE [value |-> << <<"run_precheck", "true">>, <<"run_upgrade", "false">> >>,
          notes |-> {"Info: Running pre-checks and host validations"}]

\* PatchManager.get_exvars: the returned str "k: v, k: v" as its <<k, v>> settings
\* in order, and the messages printed on the way
get_exvars(a) ==
    IF a.pkgcheck
    THEN [value |-> << <<"run_pkgcheck", "true">> >>,
          notes |-> IF a.upgrade \/ a.upgradepkgsonly
                    THEN {"Warning: Upgrade flag cannot be used with pkgcheck."}
                    ELSE {}]
    ELSE IF a.upgradepkgsonly
    THEN [value |-> << <<"run_precheck", "true">>, <<"run_upgrade", "true">>,
                       <<"reboot_if_required", "false">> >>,
          notes |-> {"Info: Upgrade packages only. Skipping reboots even if required."}]
    ELSE IF a.upgrade
    THEN [value |-> << <<"run_precheck", "true">>, <<"run_upgrade", "true">> >>,
          notes |-> {"Info: Upgrade packages and rebooting hosts if required."}]
    ELSE [value |-> << <<"run_precheck", "true">>, <<"run_upgrade", "false">> >>,
          notes |-> {"Info: Running pre-checks and host validations"}]

\* PatchManager.get_creds followed by creds.split() of line 281
get_creds(a) ==
    IF a.nocreds THEN <<>>
    ELSE IF a.askpass THEN <<"-k">>
    ELSE IF a.askpassbecome THEN <<"-kK">>
    ELSE <<"--user", "$DEPLOY", "--private-key", "~/.ssh/deploy">>

\* run_patch_playbook, lines 278-288: the parts of cmd that depend on the call
Command(patchgroup, a) ==
    [creds |-> get_creds(a), host_list |-> patchgroup, exvars |-> get_exvars(a).value]

\* the six flags of parse_arguments that get_exvars and get_creds read
FlagNames ==
    <<"pkgcheck", "upgrade", "upgradepkgsonly", "nocreds", "askpass", "askpassbecome">>

WithFlags(a, f) ==
    [a EXCEPT !.pkgcheck = f[1], !.upgrade = f[2], !.upgradepkgsonly = f[3],
              !.nocreds = f[4], !.askpass = f[5], !.askpassbecome = f[6]]

InitCmd ==
    /\ pc = "flags"
    /\ \E f \in [DOMAIN FlagNames -> BOOLEAN] : args = WithFlags(NoArgs, f)
    /\ env = NoEnv
    /\ exit_status = 0
    /\ uncaught = None
    /\ printed = {}
    /\ dirs_created = FALSE
    /\ cwd_files = <<>>
    /\ patch_group_file = NoFile
    /\ todo = <<>>
    /\ invocations = <<>>
    /\ runner_active = FALSE
    /\ failed_groups = {}
    /\ retry_file = Missing
    /\ retry_processed = 0
    /\ externals = {}
    /\ command = NoCommand
    /\ PgIdle
    /\ HostsIdle
    /\ SkipIdle
    /\ PkgIdle

\* lines 558-559 / 605-606 and 278-288: get_exvars, get_creds, then the command
\* line for one group
BuildCommand ==
    /\ pc = "flags"
    /\ \E patchgroup \in {"pg1", "pg2"} :
          command' = Command(patchgroup, args)
    /\ printed' = printed \cup get_exvars(args).notes
    /\ pc' = "built"
    /\ UNCHANGED <<hosts_by_role, patch_groups, instances, hosts_by_role_and_region,
                   skip_host_file, skip_role_file, last_call, packages, packages_yaml,
                   args, env, exit_status, uncaught, dirs_created, cwd_files,
                   patch_group_file, todo, invocations, runner_active, failed_groups,
                   retry_file, retry_processed, externals>>

NextCmd == BuildCommand

SpecCmd == InitCmd /\ [][NextCmd]_vars

\* ------------------------------------------ begin_patch.py: the driver run

\* random.randint(1, 6) of run_debug_mode
MaxDebugGroups == 6

TargetRegion == <<"u", "s", "-", "c", "1">>

\* -r/--region as given: absent, well-formed, malformed, well-formed with a tail
DriverRegions ==
    { <<>>, TargetRegion, <<"u", "s">>, <<"u", "s", "-", "1">>,
      TargetRegion \o <<"-", "a">> }

\* -g/--grouplist as given: absent, or a quoted group
DriverGrouplists == { <<>>, <<"'", "p", "g", "2", "'">> }

\* --skiphost and --skiprole as given
DriverSkipArgs ==
    { <<  <<>>, <<>>  >>,
      <<  <<"a", ",", " ", "b">>, <<>>  >>,
      <<  <<>>, <<"a">>  >> }

\* the file -i/--inventory names: missing, empty, unreadable, two groups, no group
InventoryFiles ==
    LET two == create_patch_group_files(<< <<"pg1", << <<"a">> >> >>,
                                           <<"pg2", << <<"b">> >> >> >>)
    IN  { NoFile, TextFile(<<>>), [two EXCEPT !.readable = FALSE], two,
          TextFile(<<"a", "l", "l", ":", "\n">>) }

\* the name of the k-th listed instance: plain, or holding the text of a group key
DriverName(k, keylike) ==
    LET letter == <<"a", "b", "c", "d", "e">>[k]
    IN  IF keylike THEN <<letter, "p", "g", "7">> ELSE <<letter>>

\* the labels an instance of a driver run's listing may carry
DriverLabels ==
    { <<TRUE, << <<KeyRole, "web">>, <<KeyRegion, Join(TargetRegion)>> >> >>,
      <<TRUE, << <<KeyRole, ReservedRole>>, <<KeyRegion, Join(TargetRegion)>> >> >>,
      <<TRUE, << <<KeyRole, "web">> >> >>,
      <<FALSE, <<>> >> }

DriverListings ==
    UNION { { [k \in 1..n |-> Instance(DriverName(k, ks[k]), ls[k][1], ls[k][2])] :
                ls \in [1..n -> DriverLabels], ks \in [1..n -> BOOLEAN] } :
            n \in 0..MaxDriverInstances }

\* the flags of a driver run: none, or --pkgcheck with --upgrade
DriverFlags ==
    { <<FALSE, FALSE, FALSE, FALSE, FALSE, FALSE>>,
      <<TRUE, TRUE, FALSE, FALSE, FALSE, FALSE>> }

\* what a failed run of the playbook may leave in main.retry
RetryLists == { << <<"a">> >>, << <<"a">>, <<"b">> >> }

\* whether the run reaches generate_patch_groups
UsesGcloud(a) == ~a.debug /\ a.inventory = None /\ MatchesRegionPattern(a.region)

InitDriver ==
    /\ pc = "start"
    /\ \E region \in DriverRegions, inv \in {None, "inventory.yaml"},
          grouplist \in DriverGrouplists, debug \in BOOLEAN, skips \in DriverSkipArgs,
          flags \in DriverFlags :
          args = WithFlags([region |-> region, inventory |-> inv,
                            grouplist |-> grouplist, debug |-> debug,
                            skiphost |-> skips[1], skiprole |-> skips[2],
                            packages |-> <<"a">>,
                            pkgcheck |-> FALSE, upgrade |-> FALSE,
                            upgradepkgsonly |-> FALSE, nocreds |-> FALSE,
                            askpass |-> FALSE, askpassbecome |-> FALSE], flags)
    /\ \E f \in InventoryFiles, fails \in BOOLEAN :
          /\ args.inventory = None => f = NoFile
          /\ ~UsesGcloud(args) => ~fails
          /\ env = [inventory_file |-> f, gcloud_fails |-> fails]
    /\ instances \in DriverListings
    /\ (~UsesGcloud(args) \/ env.gcloud_fails) => instances = <<>>
    /\ retry_file \in {Missing, File(<< <<"b">> >>)}
    /\ hosts_by_role_and_region = Returned(<<>>)
    /\ exit_status = 0
    /\ uncaught = None
    /\ printed = {}
    /\ dirs_created = FALSE
    /\ cwd_files = <<>>
    /\ patch_group_file = NoFile
    /\ todo = <<>>
    /\ invocations = <<>>
    /\ runner_active = FALSE
    /\ failed_groups = {}
    /\ retry_processed = 0
    /\ externals = {}
    /\ command = NoCommand
    /\ PgIdle
    /\ SkipIdle
    /\ PkgIdle

\* PatchManager.parse_arguments, lines 424-425
ParseArguments ==
    /\ pc = "start"
    /\ IF args.inventory = None /\ args.region = <<>>
       THEN /\ pc' = "exited"
            /\ exit_status' = 2
            /\ printed' = printed \cup {"region is required"}
       ELSE /\ pc' = "parsed"
            /\ UNCHANGED <<exit_status, printed>>
    /\ UNCHANGED <<hosts_by_role, patch_groups, instances, hosts_by_role_and_region,
                   skip_host_file, skip_role_file, last_call, packages, packages_yaml,
                   args, env, uncaught, dirs_created, cwd_files, patch_group_file, todo,
                   invocations, runner_active, failed_groups, retry_file,
                   retry_processed, externals, command>>

\* lines 455 / 460: [hostname.strip() for hostname in arg.split(',')]
SkipList(arg) == LET parts == Split(arg, ",") IN [i \in DOMAIN parts |-> Strip(parts[i])]

\* PatchManager.validate_and_setup
ValidateAndSetup ==
    /\ pc = "parsed"
    /\ IF args.inventory = None /\ ~MatchesRegionPattern(args.region)
       THEN \* validate_region: sys.exit(1)
            /\ pc' = "exited"
            /\ exit_status' = 1
            /\ printed' = printed \cup {"Invalid region format"}
            /\ UNCHANGED <<dirs_created, skip_host_file, skip_role_file, last_call,
                           packages_yaml>>
       ELSE LET checked == validate_text_file(env.inventory_file)
                role_before == skip_role_file
                host_before == skip_host_file
            IN  /\ printed' = printed \cup
                       (IF args.inventory # None /\ ~checked.ok
                        THEN {checked.message} ELSE {})
                /\ dirs_created' = TRUE
                /\ skip_host_file' = IF args.skiphost # <<>>
                                     THEN AppendTo(skip_host_file, SkipList(args.skiphost))
                                     ELSE skip_host_file
                /\ skip_role_file' = IF args.skiprole # <<>>
                                     THEN AppendTo(skip_role_file, SkipList(args.skiprole))
                                     ELSE skip_role_file
                /\ last_call' =
                       IF args.skiprole # <<>>
                       THEN [hostnames |-> SkipList(args.skiprole), skiptype |-> "role",
                             before |-> role_before]
                       ELSE IF args.skiphost # <<>>
                       THEN [hostnames |-> SkipList(args.skiphost), skiptype |-> "host",
                             before |-> host_before]
                       ELSE last_call
                /\ \E list \in PackageLists(args.packages) : packages_yaml' = File(list)
                /\ pc' = "ready"
                /\ UNCHANGED exit_status
    /\ UNCHANGED <<hosts_by_role, patch_groups, instances, hosts_by_role_and_region,
                   packages, args, env, uncaught, cwd_files, patch_group_file, todo,
                   invocations, runner_active, failed_groups, retry_file,
                   retry_processed, externals, command>>

\* run() with an except clause that takes every exception
CaughtByRun_all(e) == TRUE

\* run(), line 655: the only exception the driver's top level handles
CaughtByRun(e) == e = "ValueError"

\* run_patch_playbook without its except clause
CaughtByRunner_none(e) == FALSE

\* run_patch_playbook, line 296: the only exception caught around subprocess.run
CaughtByRunner(e) == e = "CalledProcessError"

\* run_patch_playbook running the command whatever the flag says
PrintsOnly_never(debug) == FALSE

\* run_patch_playbook, line 290: print the command instead of running it
PrintsOnly(debug) == debug

\* the group names the loop of run_debug_mode / run_normal_mode goes through for the
\* patch group file f; "SystemExit" stands for the ValueError handled on the spot
GroupsToRun(a, f) ==
    IF a.grouplist # <<>> THEN Returned(<< Join(StripQuotes(a.grouplist)) >>)
    ELSE LET counted == count_patch_groups(f)
         IN  IF counted.raised # None THEN counted
             ELSE IF a.inventory # None /\ counted.value <= 0 THEN Raised("SystemExit")
             ELSE Returned(PgRange(counted.value))

Without(d, k) == SelectSeq(d, LAMBDA pair : pair[1] # k)

Prepared(raised, groups, file, cwd, notes, roster, cmds) ==
    [raised |-> raised, groups |-> groups, file |-> file, cwd |-> cwd, notes |-> notes,
     roster |-> roster, cmds |-> cmds]

\* run_normal_mode without -i: generate_and_move_patch_groups, then the groups to run
PrepareGenerated(a, e, listing) ==
    LET made  == generate_patch_groups(e.gcloud_fails, listing)
        fetch == IF e.gcloud_fails THEN Returned(<<>>) ELSE get_hosts(listing)
        name  == Join(a.region)
        f     == IF made.raised = None /\ DictHas(made.value, name)
                 THEN DictGet(made.value, name) ELSE NoFile
        valid == validate_text_file(f)
    IN  IF made.raised # None
        THEN Prepared(made.raised, <<>>, NoFile, <<>>, {}, fetch, {"gcloud"})
        ELSE IF ~valid.ok
        THEN Prepared("UnboundLocalError", <<>>, NoFile, made.value, {valid.message},
                      fetch, {"gcloud"})
        ELSE LET run == GroupsToRun(a, f)
             IN  Prepared(run.raised, run.value, f, Without(made.value, name),
                          {"File has been moved"}, fetch, {"gcloud"})

\* run_debug_mode / run_normal_mode with -i: the file is taken as it is
PrepareGiven(a, e) ==
    LET run == GroupsToRun(a, e.inventory_file)
    IN  Prepared(run.raised, run.value, e.inventory_file, <<>>, {},
                 Returned(<<>>), {})

\* run_debug_mode / run_normal_mode up to the first call of run_patch_playbook
PrepareRun ==
    /\ pc = "ready"
    /\ \E o \in IF args.inventory # None THEN {PrepareGiven(args, env)}
                ELSE IF args.debug
                THEN {Prepared(None, PgRange(n), NoFile, <<>>, {}, Returned(<<>>), {}) :
                        n \in 1..MaxDebugGroups}
                ELSE {PrepareGenerated(args, env, instances)} :
         \E mine \in {IF o.roster.raised = None /\ DictHas(o.roster.value, Join(args.region))
                      THEN DictGet(o.roster.value, Join(args.region)) ELSE <<>>} :
             /\ pc' = IF o.raised = None THEN "loop" ELSE "exited"
             /\ exit_status' = IF o.raised = None THEN exit_status ELSE 1
             /\ uncaught' = IF o.raised \in {None, "SystemExit"} \/ CaughtByRun(o.raised)
                            THEN uncaught ELSE o.raised
             /\ printed' = printed \cup get_exvars(args).notes \cup o.notes \cup
                    (IF o.raised = "SystemExit"
                     THEN {"Inventory file must have one or more defined patch groups"}
                     ELSE {})
             /\ todo' = o.groups
             /\ patch_group_file' = o.file
             /\ cwd_files' = o.cwd
             /\ externals' = externals \cup o.cmds
             /\ hosts_by_role_and_region' = o.roster
             /\ hosts_by_role' = mine
             /\ patch_groups' = create_patch_groups(mine)
    /\ UNCHANGED <<instances, skip_host_file, skip_role_file, last_call, packages,
                   packages_yaml, args, env, dirs_created, invocations, runner_active,
                   failed_groups, retry_file, retry_processed, command>>

\* process_retry_file reading no host from main.retry
RetryHosts_none(retry) == <<>>

\* process_retry_file, lines 318-324: the host names of main.retry
RetryHosts(retry) ==
    IF retry.exists /\ validate_file(TRUE, Len(retry.lines), TRUE).ok
    THEN LET filled == SelectSeq(retry.lines, LAMBDA line : Strip(line) # <<>>)
         IN  [i \in DOMAIN filled |-> Strip(filled[i])]
    ELSE <<>>

\* run_patch_playbook, lines 299-301, with main.retry as the run left it
ProcessRetryFile(retry) ==
    LET hostlist == RetryHosts(retry)
    IN  /\ retry_processed' = retry_processed + 1
        /\ IF hostlist # <<>>
           THEN /\ skip_role_file' = AppendTo(skip_role_file, hostlist)
                /\ last_call' = [hostnames |-> hostlist, skiptype |-> "role",
                                 before |-> skip_role_file]
           ELSE UNCHANGED <<skip_role_file, last_call>>

RetryNotes(retry) ==
    IF RetryHosts(retry) # <<>> THEN {"Processed .retry file"}
    ELSE IF retry.exists THEN {"File is empty"} ELSE {}

\* run_patch_playbook up to subprocess.run; with debug, the whole of it
StartPlaybook ==
    /\ pc = "loop"
    /\ todo # <<>>
    /\ command' = Command(Head(todo), args)
    /\ IF PrintsOnly(args.debug)
       THEN /\ printed' = printed \cup {"Debug: ansible-playbook"} \cup RetryNotes(retry_file)
            /\ ProcessRetryFile(retry_file)
            /\ todo' = Tail(todo)
            /\ UNCHANGED <<pc, invocations, runner_active, externals>>
       ELSE /\ printed' = printed \cup {"Executing: ansible-playbook"}
            /\ invocations' = Append(invocations, Head(todo))
            /\ runner_active' = TRUE
            /\ externals' = externals \cup {"ansible-playbook"}
            /\ pc' = "running"
            /\ UNCHANGED <<todo, skip_role_file, last_call, retry_processed>>
    /\ UNCHANGED <<hosts_by_role, patch_groups, instances, hosts_by_role_and_region,
                   skip_host_file, packages, packages_yaml, args, env, exit_status,
                   uncaught, dirs_created, cwd_files, patch_group_file, failed_groups,
                   retry_file>>

\* subprocess.run(check=True) returns or raises, then the rest of run_patch_playbook
PlaybookReturns ==
    /\ pc = "running"
    /\ \E failed \in BOOLEAN,
          left \in {retry_file} \cup {File(hosts) : hosts \in RetryLists} :
          /\ ~failed => left = retry_file
          /\ retry_file' = left
          /\ runner_active' = FALSE
          /\ IF failed /\ ~CaughtByRunner("CalledProcessError")
             THEN /\ pc' = "exited"
                  /\ uncaught' = "CalledProcessError"
                  /\ exit_status' = 1
                  /\ failed_groups' = failed_groups \cup {Head(todo)}
                  /\ UNCHANGED <<printed, todo, skip_role_file, last_call,
                                 retry_processed>>
             ELSE /\ pc' = "loop"
                  /\ failed_groups' = IF failed THEN failed_groups \cup {Head(todo)}
                                      ELSE failed_groups
                  /\ printed' = printed \cup RetryNotes(left) \cup
                         (IF failed THEN {"Error executing patch playbook"} ELSE {})
                  /\ ProcessRetryFile(left)
                  /\ todo' = Tail(todo)
                  /\ UNCHANGED <<uncaught, exit_status>>
    /\ UNCHANGED <<hosts_by_role, patch_groups, instances, hosts_by_role_and_region,
                   skip_host_file, packages, packages_yaml, args, env, dirs_created,
                   cwd_files, patch_group_file, invocations, externals, command>>

\* the loop is over: run() returns and the interpreter exits with status 0
Finish ==
    /\ pc = "loop"
    /\ todo = <<>>
    /\ pc' = "exited"
    /\ UNCHANGED <<hosts_by_role, patch_groups, instances, hosts_by_role_and_region,
                   skip_host_file, skip_role_file, last_call, packages, packages_yaml,
                   driver_vars>>

NextDriver ==
    \/ ParseArguments
    \/ ValidateAndSetup
    \/ PrepareRun
    \/ StartPlaybook
    \/ PlaybookReturns
    \/ Finish

SpecDriver == InitDriver /\ [][NextDriver]_vars

\* ------------------------------------------------ claims on the partitioner

InputHosts == UNION {Range(hosts_by_role[i][2]) : i \in DOMAIN hosts_by_role}

NonReserved(hbr) == SelectSeq(hbr, LAMBDA p : p[1] # ReservedRole)

\* the n-th host (1-based) of every role that has one, in role iteration order
Column(hbr, n) ==
    LET long == SelectSeq(hbr, LAMBDA p : Len(p[2]) >= n)
    IN  [k \in 1..Len(long) |-> long[k][2][n]]

\* group numbers the output could use at all
GroupNumbers == 1..(Cardinality(Hosts) + 3)

HasReserved == DictHas(hosts_by_role, ReservedRole)

ReservedHosts == IF HasReserved THEN DictGet(hosts_by_role, ReservedRole) ELSE <<>>

GroupsHolding(h) == {i \in DOMAIN patch_groups : h \in Range(patch_groups[i][2])}

\* C1: with all host names distinct, every input host is in exactly one output
\* group, exactly once in it, and no group holds a host that was not in the input
C1_EveryHostInExactlyOneGroup ==
    pc = "done" =>
        /\ \A h \in InputHosts :
              /\ Cardinality(GroupsHolding(h)) = 1
              /\ \A i \in GroupsHolding(h) : Count(patch_groups[i][2], h) = 1
        /\ \A i \in DOMAIN patch_groups : Range(patch_groups[i][2]) \subseteq InputHosts

C1_Witness ==
    /\ pc = "done"
    /\ Len(ReservedHosts) >= 2
    /\ \E i \in DOMAIN hosts_by_role :
          hosts_by_role[i][1] # ReservedRole /\ Len(hosts_by_role[i][2]) >= 2

\* C2: without the reserved role, group pg<i> holds exactly the i-th host of each
\* role that has at least i hosts, in role iteration order, and there is no other
\* group; {web:[a,b,c], db:[x]} gives pg1=[a,x], pg2=[b], pg3=[c]
C2_GroupIsColumn ==
    (pc = "done" /\ ~HasReserved) =>
        /\ \A n \in GroupNumbers :
              IF Column(hosts_by_role, n) = <<>>
              THEN ~DictHas(patch_groups, PgName(n))
              ELSE /\ DictHas(patch_groups, PgName(n))
                   /\ DictGet(patch_groups, PgName(n)) = Column(hosts_by_role, n)
        /\ DictKeys(patch_groups) \subseteq {PgName(n) : n \in GroupNumbers}
        /\ hosts_by_role = << <<"web", <<"a", "b", "c">> >>, <<"db", <<"x">> >> >>
              => patch_groups = << <<"pg1", <<"a", "x">> >>,
                                   <<"pg2", <<"b">> >>,
                                   <<"pg3", <<"c">> >> >>

C2_Witness ==
    /\ pc = "done"
    /\ hosts_by_role = << <<"web", <<"a", "b", "c">> >>, <<"db", <<"x">> >> >>
    /\ Len(patch_groups) = 3

\* C3: a reserved role of n > 1 hosts adds hosts[:mid] to pg2 and hosts[mid:] to
\* pg1, mid = n \div 2, behind the other roles' hosts of those groups; a reserved
\* list of three hosts alone gives pg2 = [first], pg1 = [second, third]
C3_ReservedSplitAtMid ==
    (pc = "done" /\ Len(ReservedHosts) > 1) =>
        LET n == Len(ReservedHosts)
            mid == n \div 2
            others == NonReserved(hosts_by_role)
        IN  /\ DictHas(patch_groups, PgName(1))
            /\ DictHas(patch_groups, PgName(2))
            /\ DictGet(patch_groups, PgName(2)) =
                   Column(others, 2) \o SubSeq(ReservedHosts, 1, mid)
            /\ DictGet(patch_groups, PgName(1)) =
                   Column(others, 1) \o SubSeq(ReservedHosts, mid + 1, n)
            /\ hosts_by_role = << <<ReservedRole, <<"a", "b", "c">> >> >>
                  => patch_groups = << <<"pg2", <<"a">> >>, <<"pg1", <<"b", "c">> >> >>

C3_Witness ==
    /\ pc = "done"
    /\ Len(ReservedHosts) = 3
    /\ Column(NonReserved(hosts_by_role), 2) # <<>>
    /\ Len(DictGet(patch_groups, PgName(1))) >= 3

\* C4: a reserved role of exactly one host puts that host in pg1 and in no other
\* group; with no other role the output is exactly {pg1: [host]}, without pg2
C4_SingleReservedInPg1 ==
    (pc = "done" /\ Len(ReservedHosts) = 1) =>
        /\ DictHas(patch_groups, PgName(1))
        /\ \A i \in DOMAIN patch_groups :
              ReservedHosts[1] \in Range(patch_groups[i][2])
                  <=> patch_groups[i][1] = PgName(1)
        /\ Len(hosts_by_role) = 1
              => /\ patch_groups = << <<PgName(1), ReservedHosts>> >>
                 /\ ~DictHas(patch_groups, PgName(2))

C4_Witness ==
    /\ pc = "done"
    /\ Len(ReservedHosts) = 1
    /\ Len(hosts_by_role) = 1
    /\ patch_groups = << <<"pg1", ReservedHosts>> >>

\* C5: no host of the reserved role is in a group other than pg1 and pg2,
\* however many groups the other roles produce
C5_ReservedConfined ==
    pc = "done" =>
        \A i \in DOMAIN patch_groups :
            Range(patch_groups[i][2]) \cap Range(ReservedHosts) # {}
                => patch_groups[i][1] \in {PgName(1), PgName(2)}

C5_Witness ==
    /\ pc = "done"
    /\ Len(ReservedHosts) >= 2
    /\ DictHas(patch_groups, PgName(3))

\* C6: every group key of the output has a non-empty host list, also when a
\* role (reserved or not) maps to an empty list
C6_NoEmptyGroup ==
    pc = "done" => \A i \in DOMAIN patch_groups : patch_groups[i][2] # <<>>

\* C7: the group numbers of the output are 1..K for some K >= 0: no group pg<k>,
\* k > 1, without pg<k-1>, and no key that is not pg<n>
C7_ContiguousIndices ==
    pc = "done" =>
        /\ DictKeys(patch_groups) \subseteq {PgName(n) : n \in GroupNumbers}
        /\ \A k \in GroupNumbers :
              (k > 1 /\ DictHas(patch_groups, PgName(k)))
                  => DictHas(patch_groups, PgName(k - 1))

C7_Witness ==
    /\ pc = "done"
    /\ Len(ReservedHosts) >= 2
    /\ NonReserved(hosts_by_role) = <<>>
    /\ patch_groups[1][1] = "pg2"
    /\ DictHas(patch_groups, "pg1")

\* ------------------------------------------------------ claims on get_hosts

RosterRegions == {"us", "unknown"}

RosterRoles == {"web", "db", ReservedRole}

Roster == hosts_by_role_and_region.value

\* an instance's role and region as its labels give them
RoleOfInstance(inst) == FirstRoleValue(inst.labels)

RegionOfInstance(inst) ==
    IF \E i \in DOMAIN inst.labels : inst.labels[i][1] = KeyRegion
    THEN DictGet(inst.labels, KeyRegion)
    ELSE "unknown"

\* names of the instances of a role and region, in the provider's listing order
Listed(region, role) ==
    LET of == SelectSeq(instances,
                        LAMBDA inst : /\ RoleOfInstance(inst) = role
                                      /\ RegionOfInstance(inst) = region)
    IN  [k \in 1..Len(of) |-> of[k].name]

RosterList(region, role) ==
    IF DictHas(Roster, region) /\ DictHas(DictGet(Roster, region), role)
    THEN DictGet(DictGet(Roster, region), role)
    ELSE <<>>

RosterNames ==
    UNION {UNION {Range(Roster[i][2][j][2]) : j \in DOMAIN Roster[i][2]} : i \in DOMAIN Roster}

\* C8: get_hosts returns, per region and role, the names of the instances of that
\* role and region in the reverse of the listing order; an instance without a
\* role label is in no list, one without a region label is under 'unknown'
C8_RosterIsReversedListing ==
    (pc = "fetched" /\ hosts_by_role_and_region.raised = None) =>
        /\ \A region \in RosterRegions, role \in RosterRoles :
              RosterList(region, role) = Reverse(Listed(region, role))
        /\ \A i \in DOMAIN Roster :
              /\ Roster[i][1] \in RosterRegions
              /\ \A j \in DOMAIN Roster[i][2] :
                    /\ Roster[i][2][j][1] \in RosterRoles
                    /\ Roster[i][2][j][2] # <<>>
        /\ \A k \in DOMAIN instances :
              /\ RoleOfInstance(instances[k]) = None
                    => instances[k].name \notin RosterNames
              /\ (RoleOfInstance(instances[k]) \in RosterRoles
                  /\ ~DictHas(instances[k].labels, KeyRegion))
                    => instances[k].name \in Range(RosterList("unknown",
                                                     RoleOfInstance(instances[k])))

C8_Witness ==
    /\ pc = "fetched"
    /\ hosts_by_role_and_region.raised = None
    /\ Len(instances) = 3
    /\ RosterList("unknown", "web") = <<"c", "a">>
    /\ RoleOfInstance(instances[2]) = None

\* ---------------------------------------------- claims on append_skip_file

HasNoDuplicate(file) ==
    IsInjective([i \in DOMAIN Content(file) |-> Strip(Content(file)[i])])

\* C9: after any sequence of append_skip_file calls, starting from a missing or
\* duplicate-free file, no name is in a skip file twice
C9_NoDuplicateName ==
    pc = "skip" => HasNoDuplicate(skip_host_file) /\ HasNoDuplicate(skip_role_file)

C9_Witness ==
    /\ pc = "skip"
    /\ last_call.skiptype = "host"
    /\ last_call.hostnames = << <<"a">>, <<" ", "a", " ">> >>
    /\ last_call.before = File(<< <<"b">> >>)
    /\ skip_host_file = File(<< <<"b">>, <<"a">> >>)

\* the increasing enumeration of a finite set of integers
RECURSIVE Ascending(_)
Ascending(S) ==
    IF S = {} THEN <<>>
    ELSE LET m == CHOOSE x \in S : \A y \in S : x <= y
         IN  <<m>> \o Ascending(S \ {m})

\* the names a call has to add: the stripped names absent from the file, each at
\* its first place in the call
NewNames(before, hostnames) ==
    LET stripped == [i \in DOMAIN hostnames |-> Strip(hostnames[i])]
        first == {i \in DOMAIN stripped :
                     /\ stripped[i] \notin Range(Content(before))
                     /\ \A j \in 1..(i - 1) : stripped[j] # stripped[i]}
        order == Ascending(first)
    IN  [k \in 1..Len(order) |-> stripped[order[k]]]

\* C10: every call leaves the previous content of the chosen skip file as a
\* prefix of the new content, adds the new names behind it in the order given,
\* and leaves the other skip file as it was
C10_AppendOnly ==
    [][ LET chosen == IF last_call'.skiptype = "host" THEN skip_host_file
                      ELSE skip_role_file
            chosen_after == IF last_call'.skiptype = "host" THEN skip_host_file'
                            ELSE skip_role_file'
        IN  /\ IsPrefix(Content(chosen), Content(chosen_after))
            /\ Content(chosen_after) =
                   Content(chosen) \o NewNames(chosen, last_call'.hostnames)
            /\ chosen_after.exists
            /\ last_call'.skiptype = "host" => skip_role_file' = skip_role_file
            /\ last_call'.skiptype # "host" => skip_host_file' = skip_host_file
      ]_vars

C10_Witness ==
    /\ pc = "skip"
    /\ last_call.skiptype = "role"
    /\ last_call.hostnames = << <<" ", "b">>, <<" ", "a", " ">> >>
    /\ last_call.before = File(<<>>)
    /\ skip_role_file = File(<< <<"b">>, <<"a">> >>)
    /\ skip_host_file = File(<< <<"a">> >>)

\* ------------------------------------------------ claims on the driver run

\* C11: without --grouplist the runner is invoked once per group, one at a time,
\* for pg1, pg2, ... in this order: the k-th invocation is for pg<k>, the groups
\* still to run follow the invoked ones without a gap, an invocation is under way
\* only for the last invoked group, and a run that ends normally has run them all
C11_OncePerGroupInOrder ==
    args.grouplist = <<>> =>
        /\ \A k \in DOMAIN invocations : invocations[k] = PgName(k)
        /\ runner_active =>
               /\ pc = "running"
               /\ todo # <<>>
               /\ invocations # <<>>
               /\ Head(todo) = invocations[Len(invocations)]
        /\ (pc = "loop" /\ ~args.debug) =>
               \A k \in DOMAIN todo : todo[k] = PgName(Len(invocations) + k)
        /\ pc = "running" =>
               \A k \in DOMAIN todo : todo[k] = PgName(Len(invocations) + k - 1)
        /\ (pc = "exited" /\ exit_status = 0) => todo = <<>>

C11_Witness ==
    /\ pc = "exited"
    /\ args.grouplist = <<>>
    /\ invocations = <<"pg1", "pg2", "pg3">>
    /\ failed_groups = {"pg2"}

\* C12: when the runner fails for a group the error is printed, no exception
\* leaves the driver, the exit status stays 0, and the run goes on to the end of
\* the group list
C12_RunnerFailureNeverAborts ==
    failed_groups # {} =>
        /\ "Error executing patch playbook" \in printed
        /\ uncaught = None
        /\ exit_status = 0
        /\ pc \in {"loop", "running", "exited"}
        /\ pc = "exited" => todo = <<>>

C12_Witness ==
    /\ pc = "exited"
    /\ args.grouplist = <<>>
    /\ failed_groups = {"pg1"}
    /\ Len(invocations) >= 2
    /\ exit_status = 0

FetchFails ==
    env.gcloud_fails \/ \E i \in DOMAIN instances : ~instances[i].has_labels

C14_FetchFailureAborts ==
    (FetchFails /\ "gcloud" \in externals) =>
        /\ pc = "exited"
        /\ uncaught \in {"CalledProcessError", "KeyError"}
        /\ exit_status # 0
        /\ cwd_files = <<>>
        /\ patch_group_file = NoFile
        /\ invocations = <<>>
        /\ "ansible-playbook" \notin externals

C14_Witness ==
    /\ pc = "exited"
    /\ Len(instances) = 2
    /\ instances[1].has_labels
    /\ ~instances[2].has_labels
    /\ uncaught = "KeyError"
    /\ cwd_files = <<>>

\* C15: once the runner has been invoked and run_patch_playbook is back, every
\* host name listed in main.retry is in the skip file of append_skip_file, so it
\* is there before the runner is invoked for the next group
C15_RetryHostsSkippedBeforeNextGroup ==
    (pc \in {"loop", "exited"} /\ invocations # <<>> /\ retry_file.exists) =>
        \A i \in DOMAIN retry_file.lines :
            Strip(retry_file.lines[i]) # <<>> =>
                Strip(retry_file.lines[i]) \in ExistingHosts(skip_role_file)

C15_Witness ==
    /\ pc = "loop"
    /\ todo # <<>>
    /\ invocations = <<"pg1">>
    /\ failed_groups = {"pg1"}
    /\ retry_file = File(<< <<"a">>, <<"b">> >>)
    /\ skip_role_file = File(<< <<"a">>, <<"b">> >>)

\* C16: when the file given with -i is missing, empty or unreadable the driver
\* never invokes or prints a runner command and ends with a non-zero status,
\* with and without --grouplist
C16_BadInventoryFileRejected ==
    (args.inventory # None /\ ~validate_text_file(env.inventory_file).ok) =>
        /\ invocations = <<>>
        /\ "Debug: ansible-playbook" \notin printed
        /\ pc = "exited" => exit_status # 0

\* C17: without -i, a region that is not <letters>-<letters><digits> and nothing
\* else ends the run with status 1 before any directory or file is created
C17_OnlyRegionFormatAccepted ==
    (args.inventory = None /\ args.region # <<>>
        /\ ~MatchesRegionPattern_anchored(args.region)
        /\ pc \notin {"start", "parsed"}) =>
        /\ pc = "exited"
        /\ exit_status = 1
        /\ ~dirs_created
        /\ packages_yaml = Missing

\* C18: with the debug flag no external command is executed on any path: neither
\* ansible-playbook nor gcloud
C18_DebugRunsNothing ==
    args.debug =>
        /\ externals = {}
        /\ invocations = <<>>
        /\ ~runner_active

C18_Witness ==
    /\ args.debug
    /\ args.inventory = None
    /\ pc = "exited"
    /\ exit_status = 0
    /\ retry_processed >= 2
    /\ "Debug: ansible-playbook" \in printed

\* C20: in normal mode without -i and without --grouplist, the group names the
\* loop goes through are the keys create_patch_groups produced for the region
C20_CountedGroupsAreTheGroups ==
    (pc = "loop" /\ ~args.debug /\ args.inventory = None /\ args.grouplist = <<>>
        /\ invocations = <<>>) =>
        Range(todo) = DictKeys(patch_groups)

\* C22: when the fetch went through but left no patch group file for the
\* configured region, generate_and_move_patch_groups raises FileNotFoundError and
\* the runner is invoked for no group
C22_MissingGroupFileRaisesFileNotFound ==
    ("gcloud" \in externals
        /\ ~env.gcloud_fails
        /\ hosts_by_role_and_region.raised = None
        /\ ~DictHas(hosts_by_role_and_region.value, Join(args.region))) =>
        /\ pc = "exited"
        /\ uncaught = "FileNotFoundError"
        /\ invocations = <<>>

\* C23: every finished run_patch_playbook call (runner succeeded, failed, or the
\* command only printed) has processed main.retry; the driver's steps never
\* remove main.retry, and a debug step leaves it as it is; processing a main.retry
\* that did not change since it was last processed leaves the skip-role file as
\* it is; and no step of the group loop changes the skip-host file
C23_RetryProcessingIdempotent ==
    [][ LET in_loop == pc \in {"loop", "running"}
            call_done == Len(todo') < Len(todo)
            again == retry_processed' > retry_processed /\ retry_processed > 0
        IN  in_loop =>
              (/\ skip_host_file' = skip_host_file
               /\ retry_file.exists => (retry_file').exists
               /\ call_done => retry_processed' = retry_processed + 1
               /\ pc = "loop" => retry_file' = retry_file
               /\ (again /\ retry_file' = retry_file) =>
                      skip_role_file' = skip_role_file)
      ]_vars

C23_Witness ==
    /\ pc = "exited"
    /\ invocations = <<"pg1", "pg2">>
    /\ failed_groups = {"pg1"}
    /\ retry_processed = 2
    /\ retry_file = File(<< <<"a">>, <<"b">> >>)
    /\ skip_role_file = File(<< <<"a">>, <<"b">> >>)
    /\ skip_host_file = File(<< <<"a">>, <<"b">> >>)

\* ------------------------------------- claims on the runner's command line

\* C21: the extra variables of a built command follow pkgcheck > upgradepkgsonly >
\* upgrade > none: with --pkgcheck they are exactly run_pkgcheck: true whatever the
\* other flags; else with --upgradepkgsonly run_upgrade is true and
\* reboot_if_required false, also beside --upgrade; else with --upgrade
\* run_upgrade is true; with no flag run_upgrade is false
C21_ExvarsPrecedence ==
    LET given == Range(command.exvars)
    IN  command.host_list # None =>
            /\ args.pkgcheck =>
                   /\ command.exvars = << <<"run_pkgcheck", "true">> >>
                   /\ <<"run_upgrade", "true">> \notin given
            /\ (~args.pkgcheck /\ args.upgradepkgsonly) =>
                   /\ <<"run_upgrade", "true">> \in given
                   /\ <<"reboot_if_required", "false">> \in given
            /\ (~args.pkgcheck /\ ~args.upgradepkgsonly /\ args.upgrade) =>
                   <<"run_upgrade", "true">> \in given
            /\ (~args.pkgcheck /\ ~args.upgradepkgsonly /\ ~args.upgrade) =>
                   <<"run_upgrade", "false">> \in given
            /\ \A i, j \in DOMAIN command.exvars :
                   command.exvars[i][1] = command.exvars[j][1] => i = j

C21_Witness ==
    /\ pc = "built"
    /\ args.pkgcheck
    /\ args.upgrade
    /\ args.upgradepkgsonly
    /\ command.host_list = "pg2"
    /\ command.exvars = << <<"run_pkgcheck", "true">> >>
    /\ "Warning: Upgrade flag cannot be used with pkgcheck." \in printed

\* -------------------------------------- claims on generate_package_yaml

\* C19: the list written under 'packages' holds each package name at most once,
\* also when a name comes several times with different blanks around it
C19_NoDuplicatePackage ==
    pc = "written" => IsInjective(packages_yaml.lines)

====
